---- MODULE Spec2Model ----
(***************************************************************************)
(* AdaptiveSpider (acrawler/spiders/adaptive.py): the crawl graph, the     *)
(* replay set, the per-domain reward tracker, the link classifiers and the *)
(* periodic re-scoring of the links still waiting in the scheduler queue.  *)
(*                                                                         *)
(* Scores and probabilities are written in tenths: 5 stands for 0.5.       *)
(* Python's None is the empty tuple, a value v that may be None is <<v>>.  *)
(* A node's attribute dict is a function from attribute names to values,   *)
(* as networkx keeps it; G.add_node(n, **attrs) merges attrs into it.      *)
(***************************************************************************)
EXTENDS Integers, Sequences, FiniteSets, TLC

\* ---------------------------------------------------------------- bounds
\* node ids handed out in a run
MaxNodes == 3
\* link dicts the extractor returns for one response
MaxLinks == 2
\* parse() generators suspended at a yield at the same time
MaxActive == 1
\* the replay_N crawler argument of the crawl that replays
MaxReplayN == 1
\* the floor of the re-scoring gate, max(500, ...) at adaptive.py:206,
\* scaled down so that the gate opens within MaxNodes responses
RescoreFloor == 1
\* outcomes the frontier delivers for a request that already had one
MaxRedelivered == 1

\* ------------------------------------------------------- the environment
None == <<>>
Some(v) == <<v>>

\* available_form_types(): the categories
FormTypes == {"login", "search"}

\* a seed request of start_requests(): no node_id in its meta
seed_request(url, domain) == [url |-> url, domain |-> domain, node_id |-> None]

\* the crawls explored: the replay_N crawler argument (replay on, replay
\* off) and the seed requests (two sites, two pages of one site)
Crawls ==
    { [replay_N |-> MaxReplayN,
       seeds |-> { seed_request("http://a/", "a"),
                   seed_request("http://b/", "b") }],
      [replay_N |-> 0,
       seeds |-> { seed_request("http://a/", "a"),
                   seed_request("http://a/x", "a") }] }

\* what iter_link_dicts() can extract from a page: the link dicts of its
\* first n links, in document order
PageUrls == << "/1", "/2", "/3", "/4" >>
LinkLists == { [i \in 1..n |-> [url |-> PageUrls[i]]] : n \in 0..MaxLinks }

\* the probability predict_proba() of a fitted classifier returns; the
\* classifier is sklearn's, all the model keeps of it is that it is fitted
PredictProbs == {9}

\* ----------------------------------------------------------------- state
VARIABLES
    G_node,                 \* self.G.node: node id -> attribute dict
    G_edge,                 \* self.G.edge: <<prev_id, node_id>> -> [link]
    node_ids,               \* self.node_ids: next value of itertools.count()
    replay_node_ids,        \* self._replay_node_ids
    scores_recalculated_at, \* self._scores_recalculated_at
    response_count,         \* self.response_count
    domain_scores,          \* self.domain_scores.scores: domain -> scores
    link_classifiers,       \* form type -> number of partial_fit calls
    replay_N,               \* self.replay_N
    queue,                  \* requests pending in the scheduler queue
    gens,                   \* parse() generators suspended at a yield
    taken,                  \* history: requests that left the queue
    redelivered,            \* history: outcomes delivered a second time
    extracted,              \* history: node id -> links extracted from it
    seed_ids,               \* history: ids allocated for seed responses
    alloc,                  \* history: the values next(self.node_ids) returned
    fed,                    \* history: domain -> scores given to update()
    saved,                  \* the files of the last checkpoint
    running,                \* task name -> running of the LoopingCall
    final,                  \* the files closed() wrote
    ev                      \* history: the handler that ran last, its input

vars == << G_node, G_edge, node_ids, replay_node_ids, scores_recalculated_at,
           response_count, domain_scores, link_classifiers, replay_N, queue,
           gens, taken, redelivered, extracted, seed_ids, alloc, fed,
           saved, running, final, ev >>

\* ------------------------------------------------------------- helpers
Max(a, b) == IF a >= b THEN a ELSE b

Range(s) == { s[i] : i \in 1..Len(s) }

\* the sequences that list every element of the set S exactly once
Orderings(S) ==
    { s \in [1..Cardinality(S) -> S] : Range(s) = S }

\* the rearrangements of the sequence s
Permutations_(s) ==
    { [i \in 1..Len(s) |-> s[p[i]]] : p \in Orderings(1..Len(s)) }

\* the elements of a set of integers in ascending order
RECURSIVE Sorted(_)
Sorted(S) ==
    IF S = {} THEN <<>>
    ELSE LET m == CHOOSE x \in S : \A y \in S : x <= y
         IN  <<m>> \o Sorted(S \ {m})

\* get_constant_scores(val)
get_constant_scores(val) == [ft \in FormTypes |-> val]

\* what response_max_scores(response) can return: a score for each form
\* type
ResponseScores ==
    { [ft \in FormTypes |-> IF ft = "login" THEN 5 ELSE 4],
      [ft \in FormTypes |-> IF ft = "login" THEN 0 ELSE 9] }

\* what response_max_scores would give for the page of a response that is
\* not ok, were it called
FailedPageScores == [ft \in FormTypes |-> IF ft = "login" THEN 5 ELSE 4]

\* what iter_link_dicts would give for that page, were it called
FailedPageLinks == [i \in 1..MaxLinks |-> [url |-> PageUrls[i]]]

\* next() that does not advance the counter
next_id_stuck(counter) == [id |-> counter, counter |-> counter]

\* itertools.count(): next() returns the counter and advances it
next_id(counter) == [id |-> counter, counter |-> counter + 1]

\* G.add_node(n, **attrs)
add_node(nodes, n, attrs) ==
    IF n \in DOMAIN nodes
    THEN [nodes EXCEPT ![n] = attrs @@ nodes[n]]
    ELSE (n :> attrs) @@ nodes

\* G.add_edge(u, v, link=link)
add_edge(edges, u, v, link) ==
    (<< u, v >> :> [link |-> link]) @@ edges

\* G.predecessors_iter(node_id)
predecessors(edges, node_id) ==
    Sorted({ e[1] : e \in { d \in DOMAIN edges : d[2] = node_id } })

\* _iter_incoming_link_dicts(node_id), as a list
incoming_link_dicts(edges, node_id) ==
    LET prev == predecessors(edges, node_id)
    IN  [i \in 1..Len(prev) |-> edges[<< prev[i], node_id >>].link]


\* seq repeated n times: seq * n
RECURSIVE Repeat(_, _)
Repeat(seq, n) == IF n <= 0 THEN <<>> ELSE seq \o Repeat(seq, n - 1)

\* dict.get(key, default)
Get(dict, key, default) == IF key \in DOMAIN dict THEN dict[key] ELSE default

\* ------------------------------------------------------------ MaxScores
\* MaxScores._zero_scores
zero_scores == [ft \in FormTypes |-> 0]

\* an update that keeps the latest score, not the largest
MaxScores_update_latest(ms, domain, scores) ==
    LET cur == IF domain \in DOMAIN ms THEN ms[domain] ELSE zero_scores
        new == [k \in FormTypes |->
                    IF k \in DOMAIN scores THEN scores[k] ELSE cur[k]]
    IN  (domain :> new) @@ ms

\* MaxScores.update(domain, scores); self.scores is a defaultdict
MaxScores_update(ms, domain, scores) ==
    LET cur == IF domain \in DOMAIN ms THEN ms[domain] ELSE zero_scores
        new == [k \in FormTypes |->
                    IF k \in DOMAIN scores THEN Max(cur[k], scores[k])
                    ELSE cur[k]]
    IN  (domain :> new) @@ ms

\* MaxScores.__len__
MaxScores_len(ms) == Cardinality(DOMAIN ms)

\* sum(v[k] for v in self.scores.values()) over the domains D
RECURSIVE sum_values(_, _, _)
sum_values(ms, D, k) ==
    IF D = {} THEN 0
    ELSE LET d == CHOOSE x \in D : TRUE
         IN  ms[d][k] + sum_values(ms, D \ {d}, k)

\* MaxScores.sum()
MaxScores_sum(ms) == [k \in FormTypes |-> sum_values(ms, DOMAIN ms, k)]

\* the greatest common divisor of a >= 0 and b > 0
RECURSIVE gcd(_, _)
gcd(a, b) == IF a = 0 THEN b ELSE gcd(b % a, a)

\* the quotient v / n of a division, as the fraction in lowest terms
quotient(v, n) == << v \div gcd(v, n), n \div gcd(v, n) >>

\* MaxScores.avg()
MaxScores_avg(ms) ==
    IF DOMAIN ms = {} THEN [k \in FormTypes |-> quotient(zero_scores[k], 1)]
    ELSE [k \in FormTypes |->
              quotient(MaxScores_sum(ms)[k], MaxScores_len(ms))]

\* the calls of MaxScores.update so far: for each domain it was called
\* for, the scores it was given for each form type
fed_update(log, domain, scores) ==
    LET cur == IF domain \in DOMAIN log THEN log[domain]
               ELSE [k \in FormTypes |-> {}]
        new == [k \in FormTypes |->
                    IF k \in DOMAIN scores THEN cur[k] \cup {scores[k]}
                    ELSE cur[k]]
    IN  (domain :> new) @@ log

\* -------------------------------------------------------- visit handling
\* BaseSpider.increase_response_count()
increase_response_count(rc) == rc + 1

\* every visited node added to replay, initial nodes too
replay_after_visit_any(replay, node_id, is_seed_url) == replay \cup {node_id}

\* the end of update_response_node: initial nodes are not added to replay
replay_after_visit(replay, node_id, is_seed_url) ==
    IF ~is_seed_url THEN replay \cup {node_id} ELSE replay

\* seed nodes numbered below zero, apart from the counter of the children
update_response_node_seeds_apart(nodes, counter, replay, response, rc) ==
    LET is_seed_url == response.node_id = None
        node_id == IF is_seed_url THEN 0 - 1 - Cardinality(DOMAIN nodes)
                   ELSE response.node_id[1]
        ok == response.ok
        observed_scores == IF ok THEN response.scores
                           ELSE get_constant_scores(0)
        attrs == [url |-> response.url, visited |-> TRUE, ok |-> Some(ok),
                  scores |-> Some(observed_scores), response_id |-> Some(rc)]
    IN  [nodes |-> add_node(nodes, node_id, attrs),
         counter |-> counter,
         replay |-> replay_after_visit(replay, node_id, is_seed_url),
         node_id |-> node_id,
         is_seed_url |-> is_seed_url]

\* update_response_node(response): the graph, the id counter and the replay
\* set after it, and the node id it returns
update_response_node(nodes, counter, replay, response, rc) ==
    LET is_seed_url == response.node_id = None
        nx == next_id(counter)
        node_id == IF is_seed_url THEN nx.id ELSE response.node_id[1]
        ok == response.ok
        observed_scores == IF ok THEN response.scores
                           ELSE get_constant_scores(0)
        attrs == [url |-> response.url, visited |-> TRUE, ok |-> Some(ok),
                  scores |-> Some(observed_scores), response_id |-> Some(rc)]
    IN  [nodes |-> add_node(nodes, node_id, attrs),
         counter |-> IF is_seed_url THEN nx.counter ELSE counter,
         replay |-> replay_after_visit(replay, node_id, is_seed_url),
         node_id |-> node_id,
         is_seed_url |-> is_seed_url]

\* a handler that takes a request without node_id for that of node 0
on_offdomain_request_dropped_guess(nodes, replay, request, rc) ==
    LET node_id == IF request.node_id = None THEN 0 ELSE request.node_id[1]
        attrs == [visited |-> TRUE, ok |-> Some(FALSE),
                  scores |-> Some(get_constant_scores(0)),
                  response_id |-> Some(rc)]
    IN  [nodes |-> add_node(nodes, node_id, attrs),
         replay |-> replay \cup {node_id}, ignored |-> FALSE]

\* a handler that logs every dropped request and records none
on_offdomain_request_dropped_logged(nodes, replay, request, rc) ==
    [nodes |-> nodes, replay |-> replay, ignored |-> FALSE]

\* on_offdomain_request_dropped(request): the graph and the replay set
\* after it; node_id None and node_id 0 are both falsy
on_offdomain_request_dropped(nodes, replay, request, rc) ==
    LET falsy == request.node_id = None \/ request.node_id = Some(0)
        node_id == request.node_id[1]
        attrs == [visited |-> TRUE, ok |-> Some(FALSE),
                  scores |-> Some(get_constant_scores(0)),
                  response_id |-> Some(rc)]
    IN  IF falsy
        THEN [nodes |-> nodes, replay |-> replay, ignored |-> TRUE]
        ELSE [nodes |-> add_node(nodes, node_id, attrs),
              replay |-> replay \cup {node_id}, ignored |-> FALSE]

\* update_domain_scores(response, node_id): self.domain_scores after it
update_domain_scores(ms, nodes, domain, node_id) ==
    LET scores == nodes[node_id].scores[1]
    IN  IF DOMAIN scores = {} THEN ms
        ELSE MaxScores_update(ms, domain, scores)

\* _get_y(node_id, form_type)
get_y(nodes, node_id, form_type) ==
    << Get(nodes[node_id].scores[1], form_type, 0) >= 5 >>

\* replay as soon as the set holds replay_N ids
past_node_ids_early(N, replay) ==
    IF N # 0 /\ N <= Cardinality(replay)
    THEN { s \in [1..N -> replay] : \A i, j \in 1..N : i # j => s[i] # s[j] }
    ELSE { <<>> }

\* the samples random.sample(self._replay_node_ids, self.replay_N) can
\* draw when update_classifiers replays, the empty list when it does not
past_node_ids(N, replay) ==
    IF N # 0 /\ N < Cardinality(replay)
    THEN { s \in [1..N -> replay] : \A i, j \in 1..N : i # j => s[i] # s[j] }
    ELSE { <<>> }

\* a loop that labels the replayed examples as the node being visited
RECURSIVE extend_batch_fresh_labels(_, _, _, _)
extend_batch_fresh_labels(batch, past, nodes, edges) ==
    IF past = <<>> THEN batch
    ELSE LET id == Head(past)
             x == incoming_link_dicts(edges, id)
             more ==
                 IF x = <<>> THEN batch
                 ELSE [X_raw |-> batch.X_raw \o x,
                       ids |-> batch.ids \o Repeat(<<id>>, Len(x)),
                       y_all |-> [ft \in FormTypes |->
                           batch.y_all[ft]
                               \o Repeat(get_y(nodes, batch.ids[1], ft),
                                         Len(x))]]
         IN  extend_batch_fresh_labels(more, Tail(past), nodes, edges)

\* the loop of update_classifiers over the replayed ids
RECURSIVE extend_batch(_, _, _, _)
extend_batch(batch, past, nodes, edges) ==
    IF past = <<>> THEN batch
    ELSE LET id == Head(past)
             x == incoming_link_dicts(edges, id)
             more ==
                 IF x = <<>> THEN batch
                 ELSE [X_raw |-> batch.X_raw \o x,
                       ids |-> batch.ids \o Repeat(<<id>>, Len(x)),
                       y_all |-> [ft \in FormTypes |->
                           batch.y_all[ft]
                               \o Repeat(get_y(nodes, id, ft), Len(x))]]
         IN  extend_batch(more, Tail(past), nodes, edges)

\* update_classifiers(node_id) with the replay sample past: the batch given
\* to partial_fit, None when the node has no incoming link
training_batch(nodes, edges, node_id, past) ==
    LET X_raw == incoming_link_dicts(edges, node_id)
        fresh == [X_raw |-> X_raw,
                  ids |-> Repeat(<<node_id>>, Len(X_raw)),
                  y_all |-> [ft \in FormTypes |->
                      Repeat(get_y(nodes, node_id, ft), Len(X_raw))]]
    IN  IF X_raw = <<>> THEN None
        ELSE Some(extend_batch(fresh, past, nodes, edges))

\* a partial_fit call for every example of the batch
partial_fit_all_per_example(clfs, batch) ==
    IF batch = None THEN clfs
    ELSE [ft \in FormTypes |-> clfs[ft] + Len(batch[1].X_raw)]

\* clf.partial_fit(X, y, classes=[False, True]) for every form type
partial_fit_all(clfs, batch) ==
    IF batch = None THEN clfs
    ELSE [ft \in FormTypes |-> clfs[ft] + 1]

\* get_link_scores that asks the classifier whether it is fitted or not
get_link_scores_always_predict(links, clfs) ==
    IF links = <<>> THEN { <<>> }
    ELSE [1..Len(links) -> [FormTypes -> PredictProbs]]

\* get_link_scores(links): the lists of score dicts it can return
get_link_scores(links, clfs) ==
    IF links = <<>> THEN { <<>> }
    ELSE LET probs(ft) == IF clfs[ft] = 0 THEN {5} ELSE PredictProbs
             dicts == { d \in [FormTypes -> PredictProbs \cup {5}] :
                          \A ft \in FormTypes : d[ft] \in probs(ft) }
         IN  [1..Len(links) -> dicts]

\* a round that adds the node with its url only
out_node_bare(nodes, edges, counter, this_node_id, link, scores) ==
    LET nx == next_id(counter)
        attrs == [url |-> link.url, visited |-> FALSE]
    IN  [nodes |-> add_node(nodes, nx.id, attrs),
         edges |-> add_edge(edges, this_node_id, nx.id, link),
         counter |-> nx.counter, node_id |-> nx.id]

\* a round that adds the node and forgets the edge
out_node_no_edge(nodes, edges, counter, this_node_id, link, scores) ==
    LET nx == next_id(counter)
        attrs == [url |-> link.url, visited |-> FALSE, ok |-> None,
                  scores |-> None, response_id |-> None,
                  predicted_scores |-> scores]
    IN  [nodes |-> add_node(nodes, nx.id, attrs), edges |-> edges,
         counter |-> nx.counter, node_id |-> nx.id]

\* a round that stores the link scores as the node's observed scores
out_node_scores_key(nodes, edges, counter, this_node_id, link, scores) ==
    LET nx == next_id(counter)
        attrs == [url |-> link.url, visited |-> FALSE, ok |-> None,
                  scores |-> Some(scores), response_id |-> None]
    IN  [nodes |-> add_node(nodes, nx.id, attrs),
         edges |-> add_edge(edges, this_node_id, nx.id, link),
         counter |-> nx.counter, node_id |-> nx.id]

\* a parse that sends requests from failed responses too
expands_always(nodes, node_id) == TRUE

\* the test of parse that lets generate_out_nodes run: the node is ok
expands(nodes, node_id) == nodes[node_id].ok = Some(TRUE)

\* one round of the loop of generate_out_nodes, up to its yield
out_node(nodes, edges, counter, this_node_id, link, scores) ==
    LET nx == next_id(counter)
        node_id == nx.id
        attrs == [url |-> link.url, visited |-> FALSE, ok |-> None,
                  scores |-> None, response_id |-> None,
                  predicted_scores |-> scores]
    IN  [nodes |-> add_node(nodes, node_id, attrs),
         edges |-> add_edge(edges, this_node_id, node_id, link),
         counter |-> nx.counter,
         node_id |-> node_id]


\* ------------------------------------------------------------ re-scoring
\* a gate that asks for more responses than there have been
too_few_updates_ever(interval, min_resp_count) ==
    interval <= Max(min_resp_count, interval)

\* a gate that opens one response early
too_few_updates_strict(interval, min_resp_count) == interval < min_resp_count

\* the test of _recalculate_link_scores that returns without re-scoring
too_few_updates(interval, min_resp_count) == interval <= min_resp_count

\* scheduler_queue.iter_active_node_ids()
iter_active_node_ids(q) ==
    Sorted({ r.node_id[1] : r \in { x \in q : x.node_id # None } })

\* the first loop of _recalculate_link_scores: links and update_node_ids
RECURSIVE collect_links(_, _)
collect_links(edges, active) ==
    IF active = <<>> THEN [links |-> <<>>, update_node_ids |-> <<>>]
    ELSE LET node_id == Head(active)
             x == incoming_link_dicts(edges, node_id)
             r == collect_links(edges, Tail(active))
         IN  [links |-> x \o r.links,
              update_node_ids |->
                  Repeat(<<node_id>>, Len(x)) \o r.update_node_ids]

\* a pass over every node that has an incoming link, pending or not
rescore_targets_all(edges, q) ==
    collect_links(edges, Sorted({ d[2] : d \in DOMAIN edges }))

\* the links the pass re-scores and the nodes they lead to
rescore_targets(edges, q) == collect_links(edges, iter_active_node_ids(q))

\* the link scores written under the key of the observed scores
rescored_attrs_scores_key(scores) == [scores |-> Some(scores)]

\* the keyword arguments of the G.add_node of the second loop
rescored_attrs(scores) == [predicted_scores |-> scores]

\* the second loop: G.add_node(node_id, predicted_scores=scores) over
\* zip(update_node_ids, link_scores)
RECURSIVE write_predicted(_, _, _)
write_predicted(nodes, update_node_ids, link_scores) ==
    IF update_node_ids = <<>> \/ link_scores = <<>> THEN nodes
    ELSE write_predicted(
             add_node(nodes, Head(update_node_ids),
                      rescored_attrs(Head(link_scores))),
             Tail(update_node_ids), Tail(link_scores))

\* --------------------------------------------------------------- actions
RECURSIVE Reserved(_)
\* node ids the suspended generators will still allocate
Reserved(S) ==
    IF S = {} THEN 0
    ELSE LET g == CHOOSE x \in S : TRUE
         IN  Len(g.rest) + Reserved(S \ {g})

NoEdges == [e \in {} |-> [link |-> [url |-> ""]]]
NoNodes == [n \in {} |-> [visited |-> FALSE]]
NoDomains == [d \in {} |-> zero_scores]
NoExtracted == [n \in {} |-> 0]
NoFed == [d \in {} |-> [k \in FormTypes |-> {}]]

\* the spider after __init__, the seed requests of the crawl scheduled
\* the LoopingCalls __init__ starts
Tasks == {"log_task", "checkpoint_task", "update_link_scores_task"}

InitCrawl(crawl) ==
    /\ G_node = NoNodes
    /\ G_edge = NoEdges
    /\ node_ids = 0
    /\ replay_node_ids = {}
    /\ scores_recalculated_at = 0
    /\ response_count = 0
    /\ domain_scores = NoDomains
    /\ link_classifiers = [ft \in FormTypes |-> 0]
    /\ replay_N = crawl.replay_N
    /\ queue = crawl.seeds
    /\ gens = {}
    /\ taken = {}
    /\ redelivered = 0
    /\ extracted = NoExtracted
    /\ seed_ids = {}
    /\ alloc = <<>>
    /\ fed = NoFed
    /\ saved = None
    /\ running = [task \in Tasks |-> TRUE]
    /\ final = None
    /\ ev = [op |-> "init", node_id |-> None, domain |-> "", batch |-> None,
             n |-> 0, ok |-> None, since |-> 0]

Init == \E crawl \in Crawls : InitCrawl(crawl)

\* the request a round of generate_out_nodes yields
out_request(link, domain, node_id) ==
    [url |-> link.url, domain |-> domain, node_id |-> Some(node_id)]

\* parse(response), from its start to its first yield or to its end
parse(request) ==
    \E ok \in BOOLEAN :
    \E scores \in IF ok THEN ResponseScores ELSE { FailedPageScores } :
    \E links0 \in IF ok THEN LinkLists ELSE { FailedPageLinks } :
    \E links \in IF ok THEN Permutations_(links0) ELSE { links0 } :
      LET response == [url |-> request.url, domain |-> request.domain,
                       node_id |-> request.node_id, ok |-> ok,
                       scores |-> scores]
          rc == increase_response_count(response_count)
          u == update_response_node(G_node, node_ids, replay_node_ids,
                                    response, rc)
          ds == update_domain_scores(domain_scores, u.nodes,
                                     response.domain, u.node_id)
          rounds == IF expands(u.nodes, u.node_id) THEN Len(links) ELSE 0
      IN
      /\ u.counter + rounds + Reserved(gens) <= MaxNodes
      /\ rounds > 1 => Cardinality(gens) < MaxActive
      /\ \E past \in past_node_ids(replay_N, u.replay) :
           LET batch == training_batch(u.nodes, G_edge, u.node_id, past)
               clfs == partial_fit_all(link_classifiers, batch)
           IN
           \E link_scores \in get_link_scores(links, clfs) :
             LET expand == expands(u.nodes, u.node_id) /\ links # <<>>
                 o == out_node(u.nodes, G_edge, u.counter, u.node_id,
                               links[1], link_scores[1])
                 rest == [i \in 1..(Len(links) - 1) |->
                             [link |-> links[i + 1],
                              scores |-> link_scores[i + 1]]]
             IN
             /\ response_count' = rc
             /\ replay_node_ids' = u.replay
             /\ domain_scores' = ds
             /\ link_classifiers' = clfs
             /\ seed_ids' = IF u.is_seed_url
                             THEN seed_ids \cup {u.node_id} ELSE seed_ids
             /\ fed' = IF DOMAIN u.nodes[u.node_id].scores[1] = {} THEN fed
                         ELSE fed_update(fed, response.domain,
                                         u.nodes[u.node_id].scores[1])
             /\ ev' = [op |-> "parse", node_id |-> Some(u.node_id),
                       domain |-> response.domain, batch |-> batch,
                       n |-> rounds, ok |-> Some(ok), since |-> 0]
             /\ extracted' = IF ok THEN (u.node_id :> Len(links)) @@ extracted
                              ELSE extracted
             /\ IF expand
                THEN /\ G_node' = o.nodes
                     /\ G_edge' = o.edges
                     /\ node_ids' = o.counter
                     /\ alloc' = IF u.is_seed_url
                                  THEN alloc \o <<u.node_id, o.node_id>>
                                  ELSE Append(alloc, o.node_id)
                     /\ queue' = (queue \ {request}) \cup
                           { out_request(links[1], response.domain,
                                         o.node_id) }
                     /\ gens' = IF rest = <<>> THEN gens
                                 ELSE gens \cup
                                      { [this_node_id |-> u.node_id,
                                         domain |-> response.domain,
                                         rest |-> rest] }
                ELSE /\ G_node' = u.nodes
                     /\ G_edge' = G_edge
                     /\ node_ids' = u.counter
                     /\ alloc' = IF u.is_seed_url
                                  THEN Append(alloc, u.node_id) ELSE alloc
                     /\ queue' = queue \ {request}
                     /\ gens' = gens
             /\ UNCHANGED << scores_recalculated_at, replay_N, saved, running,
                            final >>

\* a suspended parse() resumed: the next round of generate_out_nodes, up to
\* its yield
resume(g) ==
    LET o == out_node(G_node, G_edge, node_ids, g.this_node_id,
                      Head(g.rest).link, Head(g.rest).scores)
    IN
    /\ G_node' = o.nodes
    /\ G_edge' = o.edges
    /\ node_ids' = o.counter
    /\ alloc' = Append(alloc, o.node_id)
    /\ queue' = queue \cup
          { out_request(Head(g.rest).link, g.domain, o.node_id) }
    /\ gens' = IF Tail(g.rest) = <<>> THEN gens \ {g}
                ELSE (gens \ {g}) \cup {[g EXCEPT !.rest = Tail(g.rest)]}
    /\ ev' = [op |-> "resume", node_id |-> Some(g.this_node_id),
              domain |-> g.domain, batch |-> None, n |-> 0, ok |-> None,
              since |-> 0]
    /\ UNCHANGED << replay_node_ids, scores_recalculated_at, response_count,
                    domain_scores, link_classifiers, replay_N, seed_ids,
                    taken, redelivered, extracted, fed, saved, running,
                    final >>

\* the offdomain_request_dropped signal for a queued request
drop(request) ==
    LET d == on_offdomain_request_dropped(G_node, replay_node_ids, request,
                                          response_count)
    IN
    /\ G_node' = d.nodes
    /\ replay_node_ids' = d.replay
    /\ queue' = queue \ {request}
    /\ ev' = [op |-> IF d.ignored THEN "drop_ignored" ELSE "drop",
              node_id |-> request.node_id, domain |-> request.domain,
              batch |-> None, n |-> 0, ok |-> None, since |-> 0]
    /\ UNCHANGED << G_edge, node_ids, scores_recalculated_at, response_count,
                    domain_scores, link_classifiers, replay_N, gens,
                    seed_ids, alloc, extracted, fed, saved, running,
                    final >>

\* _recalculate_link_scores(min_resp_count)
recalculate(min_resp_count) ==
    LET interval == response_count - scores_recalculated_at
        t == rescore_targets(G_edge, queue)
    IN
    IF too_few_updates(interval, min_resp_count)
    THEN UNCHANGED vars
    ELSE \E link_scores \in get_link_scores(t.links, link_classifiers) :
         /\ G_node' = write_predicted(G_node, t.update_node_ids, link_scores)
         /\ scores_recalculated_at' = response_count
         /\ ev' = [op |-> "rescore_run", node_id |-> None, domain |-> "",
                   batch |-> None, n |-> Len(t.links), ok |-> None,
                   since |-> scores_recalculated_at]
         /\ UNCHANGED << G_edge, node_ids, replay_node_ids, response_count,
                         domain_scores, link_classifiers, replay_N, queue,
                         gens, taken, redelivered, extracted, seed_ids,
                         alloc, fed, saved, running, final >>

\* recalculate_link_scores(), the update_link_scores_task tick: a stopped
\* LoopingCall calls nothing
recalculate_link_scores ==
    /\ running["update_link_scores_task"]
    /\ recalculate(Max(RescoreFloor, MaxScores_len(domain_scores)))

\* save_crawl_graph(path): the graph written to the file
save_crawl_graph(nodes, edges) == [node |-> nodes, edge |-> edges]

\* save_classifiers(path): the pipe written to the file; the vectorizer is
\* a hashing one and has no state
save_classifiers(clfs) == [clf |-> clfs]

\* closed(reason): every task that runs is stopped, then classifiers.joblib
\* is written first and crawl.pickle.gz second, both in this one call; the
\* files of the checkpoints stay
closed ==
    /\ running' = [task \in Tasks |-> IF running[task] THEN FALSE
                                                       ELSE running[task]]
    /\ final' = Some([pipe |-> save_classifiers(link_classifiers),
                      graph |-> save_crawl_graph(G_node, G_edge)])
    /\ ev' = [op |-> "closed", node_id |-> None, domain |-> "",
              batch |-> None, n |-> 0, ok |-> None, since |-> 0]
    /\ UNCHANGED << G_node, G_edge, node_ids, replay_node_ids,
                    scores_recalculated_at, response_count, domain_scores,
                    link_classifiers, replay_N, queue, gens, taken,
                    redelivered, extracted, seed_ids, alloc, fed, saved >>

\* the engine calls closed() when it has closed the spider: no response, no
\* notification and no suspended parse() is run for a closed spider
spider_open == final = None

\* the response to a queued request reaches the spider
respond ==
    /\ spider_open
    /\ \E request \in queue :
        parse(request) /\ taken' = taken \cup {request}
                       /\ UNCHANGED redelivered

\* a queued request is dropped by the offsite check
offdomain ==
    /\ spider_open
    /\ \E request \in queue :
        drop(request) /\ taken' = taken \cup {request}
                      /\ UNCHANGED redelivered

\* the event loop runs a suspended parse() further
iterate == spider_open /\ \E g \in gens : resume(g)

Next ==
    \/ respond
    \/ iterate
    \/ offdomain
    \/ recalculate_link_scores
    \/ closed

Spec == Init /\ [][Next]_vars

\* ------------------------------------- a frontier that repeats an outcome
\* a second response for a request that already had its outcome
respond_again ==
    /\ spider_open
    /\ redelivered < MaxRedelivered
    /\ \E request \in { r \in taken : r.node_id # None } :
         parse(request) /\ redelivered' = redelivered + 1
                        /\ UNCHANGED taken

\* a drop notification for a request that already had its outcome
offdomain_again ==
    /\ spider_open
    /\ redelivered < MaxRedelivered
    /\ \E request \in { r \in taken : r.node_id # None } :
         drop(request) /\ redelivered' = redelivered + 1
                       /\ UNCHANGED taken

\* a crawl of one seed, replay off
InitRedelivery ==
    InitCrawl([replay_N |-> 0, seeds |-> { seed_request("http://a/", "a") }])

NextRedelivery ==
    \/ respond
    \/ iterate
    \/ offdomain
    \/ recalculate_link_scores
    \/ respond_again
    \/ offdomain_again
    \/ closed

SpecRedelivery == InitRedelivery /\ [][NextRedelivery]_vars

\* ------------------------------------------- the timer and the responses
\* a crawl of two sites, replay off
InitLive ==
    InitCrawl([replay_N |-> 0,
               seeds |-> { seed_request("http://a/", "a"),
                           seed_request("http://b/", "b") }])

\* the update_link_scores_task is a LoopingCall: its tick comes again and
\* again, so a pass that stays possible is run; nothing is assumed of the
\* pace of the responses
SpecLive ==
    /\ InitLive
    /\ [][NextRedelivery]_vars
    /\ WF_vars(recalculate_link_scores)

\* ------------------------------------------------------- the checkpoints
\* checkpoint(), the checkpoint_task tick: crawl-<ts>.pickle.gz is written
\* first, classifiers-<ts>.joblib second; a stopped LoopingCall calls nothing
checkpoint ==
    /\ running["checkpoint_task"]
    /\ saved' = Some([graph |-> save_crawl_graph(G_node, G_edge),
                      pipe |-> save_classifiers(link_classifiers)])
    /\ UNCHANGED << G_node, G_edge, node_ids, replay_node_ids,
                    scores_recalculated_at, response_count, domain_scores,
                    link_classifiers, replay_N, queue, gens, taken,
                    redelivered, extracted, seed_ids, alloc, fed, running,
                    final, ev >>

NextCheckpoint ==
    \/ respond
    \/ iterate
    \/ offdomain
    \/ recalculate_link_scores
    \/ checkpoint
    \/ closed

\* a crawl of one seed, replay off, checkpoints taken at any moment
InitCheckpoint ==
    InitCrawl([replay_N |-> 0, seeds |-> { seed_request("http://a/", "a") }])

SpecCheckpoint == InitCheckpoint /\ [][NextCheckpoint]_vars

\* ------------------------------------------ the reward tracker on its own
\* the domains and the scores update() is called with, and the score dicts:
\* a score for some of the form types
TrackerDomains == {"foo", "bar"}
TrackerScores == {1, 4, 8}
TrackerDicts == UNION { [K -> TrackerScores] : K \in SUBSET FormTypes }

\* a MaxScores right after its construction
InitMaxScores == InitCrawl([replay_N |-> 0, seeds |-> {}])

\* s.update(domain, scores)
update ==
    \E domain \in TrackerDomains : \E scores \in TrackerDicts :
        /\ domain_scores' = MaxScores_update(domain_scores, domain, scores)
        /\ fed' = fed_update(fed, domain, scores)
        /\ UNCHANGED << G_node, G_edge, node_ids, replay_node_ids,
                        scores_recalculated_at, response_count,
                        link_classifiers, replay_N, queue, gens, taken,
                        redelivered, extracted, seed_ids, alloc, saved,
                        running, final, ev >>

NextMaxScores == update

SpecMaxScores == InitMaxScores /\ [][NextMaxScores]_vars

\* ---------------------------------------------------------------- claims
Nodes == DOMAIN G_node
Edges == DOMAIN G_edge
in_edges(n) == { e \in Edges : e[2] = n }
children(v) == { e[2] : e \in { d \in Edges : d[1] = v } }
fitted == \A ft \in FormTypes : link_classifiers[ft] > 0
unfitted == \A ft \in FormTypes : link_classifiers[ft] = 0

\* C1: the ids next(self.node_ids) hands out, for seed responses and for
\* children alike, are strictly increasing, so none is handed out twice,
\* and the nodes of the graph are exactly the ids handed out.
C1_IdsStrictlyIncreasing ==
    /\ \A i, j \in 1..Len(alloc) : i < j => alloc[i] < alloc[j]
    /\ Nodes = Range(alloc)
    /\ \A n \in Nodes : n < node_ids

\* a seed response got its id after a child of another page got one
C1_Witness ==
    /\ \E sd \in seed_ids : \E c \in Nodes \ seed_ids : c < sd
    /\ Len(alloc) >= 3

\* C2: every non-seed node has exactly one incoming edge and every seed
\* node has none, in every reachable state.
C2_OneIncomingEdge ==
    /\ \A n \in Nodes :
         Cardinality(in_edges(n)) = IF n \in seed_ids THEN 0 ELSE 1
    /\ \A e \in Edges : e[1] \in Nodes /\ e[2] \in Nodes

\* a re-scoring pass has just re-scored links of a tree with two children
C2_Witness ==
    /\ ev.op = "rescore_run" /\ ev.n > 0
    /\ Cardinality(Nodes \ seed_ids) >= 2
    /\ seed_ids # {}

\* C3: a re-scoring pass leaves every attribute of every node but
\* predicted_scores as it was, leaves the nodes that are not pending in the
\* queue untouched, and changes no edge, nor the replay set, nor the domain
\* scores.
C3_RescoreFrame ==
    [][ ev'.op = "rescore_run" =>
          /\ DOMAIN G_node' = Nodes
          /\ \A n \in Nodes :
               /\ DOMAIN G_node'[n] \ {"predicted_scores"}
                    = DOMAIN G_node[n] \ {"predicted_scores"}
               /\ \A a \in DOMAIN G_node[n] \ {"predicted_scores"} :
                    G_node'[n][a] = G_node[n][a]
               /\ n \notin Range(iter_active_node_ids(queue))
                    => G_node'[n] = G_node[n]
          /\ G_edge' = G_edge
          /\ replay_node_ids' = replay_node_ids
          /\ domain_scores' = domain_scores ]_vars

\* a pass has re-scored a pending link with fitted classifiers, in a crawl
\* that has observed scores, replay ids and domain scores to keep
C3_Witness ==
    /\ ev.op = "rescore_run" /\ ev.n > 0 /\ fitted
    /\ replay_node_ids # {}
    /\ DOMAIN domain_scores # {}
    /\ \E n \in Nodes : "predicted_scores" \in DOMAIN G_node[n]
                          /\ ~G_node[n].visited
                          /\ G_node[n].predicted_scores # [ft \in FormTypes |-> 5]

\* C4, as the claim states it: once a node is visited, no later event
\* changes its ok flag or its observed scores.
C4_VisitedOnce ==
    [][ \A n \in Nodes :
          G_node[n].visited =>
              /\ G_node'[n].ok = G_node[n].ok
              /\ G_node'[n].scores = G_node[n].scores ]_vars

\* C5: the replay set holds only ids of visited nodes that are not seeds
\* and have an incoming link.
C5_ReplayVisitedNonSeed ==
    \A n \in replay_node_ids :
        /\ n \in Nodes
        /\ G_node[n].visited
        /\ n \notin seed_ids
        /\ in_edges(n) # {}

\* a seed with a non-zero id has been visited and a drop notification has
\* just put a node into the replay set
C5_Witness ==
    /\ \E sd \in seed_ids : sd # 0 /\ G_node[sd].visited
    /\ ev.op = "drop"
    /\ ev.node_id[1] \in replay_node_ids

\* C6: the batch of a non-seed visit is the one fresh example when replay
\* is off or fewer than replay_N earlier nodes are in the replay set, has
\* 1 + replay_N examples once the set holds more than replay_N ids, and
\* never has more.
C6_BatchSize ==
    (ev.op = "parse" /\ ev.node_id[1] \notin seed_ids) =>
        /\ ev.batch # None
        /\ LET size == Len(ev.batch[1].X_raw)
               earlier == Cardinality(replay_node_ids \ {ev.node_id[1]})
           IN  /\ (replay_N = 0 \/ earlier < replay_N) => size = 1
               /\ Cardinality(replay_node_ids) > replay_N
                    => size = 1 + replay_N
               /\ size <= 1 + replay_N
               /\ \A ft \in FormTypes : Len(ev.batch[1].y_all[ft]) = size

\* replay is on and the replay set has grown past replay_N: a batch of
\* the fresh example and replay_N replayed ones
C6_Witness ==
    /\ ev.op = "parse" /\ replay_N > 0
    /\ ev.batch # None
    /\ Len(ev.batch[1].X_raw) = 1 + replay_N

\* C7: as long as the classifier of a form type has had no partial_fit,
\* every predicted score of that form type in the graph is 0.5.
C7_UnfittedPrior ==
    \A ft \in FormTypes :
        link_classifiers[ft] = 0 =>
            \A n \in Nodes :
                "predicted_scores" \in DOMAIN G_node[n]
                    => G_node[n].predicted_scores[ft] = 5

\* a re-scoring pass has re-scored a pending child before any training
C7_Witness ==
    /\ unfitted
    /\ ev.op = "rescore_run" /\ ev.n > 0
    /\ \E n \in Nodes : "predicted_scores" \in DOMAIN G_node[n]

gate_open ==
    response_count - scores_recalculated_at
        > Max(RescoreFloor, Cardinality(DOMAIN domain_scores))

\* C8: a pass runs only when the responses since the last pass exceed
\* max(floor, number of domains), and sets _scores_recalculated_at to the
\* response count; a tick that finds the gate closed changes nothing; no
\* other step moves _scores_recalculated_at.
C8_RescoreGate ==
    [][ /\ ev'.op = "rescore_run" =>
              /\ gate_open
              /\ scores_recalculated_at' = response_count
              /\ response_count' = response_count
        /\ (recalculate_link_scores /\ ~gate_open) => UNCHANGED vars
        /\ ev'.op # "rescore_run" =>
              scores_recalculated_at' = scores_recalculated_at ]_vars

\* a pass has run where the number of domains, not the floor, set the gate
C8_Witness ==
    /\ ev.op = "rescore_run"
    /\ scores_recalculated_at = response_count
    /\ Cardinality(DOMAIN domain_scores) > RescoreFloor

\* C9: a pass that finds no node id pending in the queue changes no node
\* and no edge of the graph.
C9_EmptyPassNoOp ==
    [][ (ev'.op = "rescore_run" /\ iter_active_node_ids(queue) = <<>>) =>
          (G_node' = G_node /\ G_edge' = G_edge) ]_vars

\* a pass has run with fitted classifiers and nothing pending, in a graph
\* whose visited child still has the prior as its predicted score
C9_Witness ==
    /\ ev.op = "rescore_run" /\ ev.n = 0 /\ fitted
    /\ iter_active_node_ids(queue) = <<>>
    /\ \E n \in Nodes \ seed_ids :
         G_node[n].predicted_scores = [ft \in FormTypes |-> 5]

\* node ids the suspended parse() of node v will still allocate
remaining(v) == Reserved({ g \in gens : g.this_node_id = v })

C10_Count ==
    /\ \A v \in DOMAIN extracted :
         /\ Cardinality(children(v)) + remaining(v) = extracted[v]
         /\ Cardinality({ e \in Edges : e[1] = v }) + remaining(v)
              = extracted[v]
    /\ \A v \in Nodes \ DOMAIN extracted : children(v) = {}

C10_Step ==
    (ev'.op \in {"parse", "resume"} /\ G_node'[ev'.node_id[1]].ok = Some(TRUE))
    => LET v == ev'.node_id[1]
           d == ev'.domain
           new == DOMAIN G_node' \ Nodes
           kids == new \ {v}
           before(ft) == IF d \in DOMAIN domain_scores
                         THEN domain_scores[d][ft] ELSE 0
       IN  /\ v \in new <=> (ev'.op = "parse" /\ v \in seed_ids' \ seed_ids)
           /\ \A c \in kids :
                /\ << v, c >> \in DOMAIN G_edge'
                /\ G_node'[c].visited = FALSE
                /\ "predicted_scores" \in DOMAIN G_node'[c]
                /\ DOMAIN G_node'[c].predicted_scores = FormTypes
                /\ G_node'[c].scores = None
           /\ DOMAIN G_edge' \ Edges = { << v, c >> : c \in kids }
           /\ Edges \subseteq DOMAIN G_edge'
           /\ ev'.op = "parse" =>
                /\ d \in DOMAIN domain_scores'
                /\ \A ft \in FormTypes :
                     domain_scores'[d][ft]
                         = Max(before(ft), G_node'[v].scores[1][ft])

\* C10: handling an ok response with n extracted links adds, over the
\* rounds of the expansion, exactly n nodes and n edges from the visited
\* node (and the node itself for a seed response); each child is created
\* unvisited, with predicted scores and without observed scores; the domain
\* scores of the response's domain take the node's observed scores in.
C10_Expansion == []C10_Count /\ [][C10_Step]_vars

\* a seed visited ok with two links, expansion finished: three nodes, two
\* edges, both children unvisited, the domain scores are the seed's scores
C10_Witness ==
    /\ ev.op = "resume" /\ gens = {}
    /\ ev.node_id[1] \in seed_ids
    /\ extracted[ev.node_id[1]] = 2
    /\ Cardinality(Nodes) = 3 /\ Cardinality(Edges) = 2
    /\ \A c \in children(ev.node_id[1]) :
         ~G_node[c].visited /\ G_node[c].scores = None
    /\ domain_scores[ev.domain] = G_node[ev.node_id[1]].scores[1]

\* C11: a response that is not ok is recorded as a visited node with
\* ok = False and observed scores 0 for every form type; when the node has
\* an incoming link it is trained on, once per form type and with the label
\* False for the fresh example; no node but the visited one is added, no
\* edge is added, no request is put in the queue and no generator is left
\* suspended.
C11_FailedResponse ==
    [][ (ev'.op = "parse" /\ ev'.ok = Some(FALSE)) =>
          LET v == ev'.node_id[1]
          IN  /\ G_node'[v].visited
              /\ G_node'[v].ok = Some(FALSE)
              /\ G_node'[v].scores = Some([ft \in FormTypes |-> 0])
              /\ in_edges(v) # {} =>
                    /\ ev'.batch # None
                    /\ ev'.batch[1].ids[1] = v
                    /\ \A ft \in FormTypes :
                         /\ ev'.batch[1].y_all[ft][1] = FALSE
                         /\ link_classifiers'[ft] = link_classifiers[ft] + 1
              /\ DOMAIN G_node' \ {v} = Nodes \ {v}
              /\ G_edge' = G_edge
              /\ queue' \subseteq queue
              /\ gens' = gens
              /\ node_ids' = IF v \in Nodes THEN node_ids ELSE node_ids + 1
      ]_vars

\* a failed response of a child: trained on, and the node has no child
C11_Witness ==
    /\ ev.op = "parse" /\ ev.ok = Some(FALSE)
    /\ ev.batch # None
    /\ in_edges(ev.node_id[1]) # {}
    /\ G_node[ev.node_id[1]].ok = Some(FALSE)
    /\ children(ev.node_id[1]) = {}

\* C12: the handler of a drop notification for a request that carries a
\* node id marks that node visited, with ok = False and observed scores 0
\* for every form type, and puts its id into the replay set; so the node of
\* every request that has left the queue is visited.
C12_DropRecorded ==
    /\ [](\A r \in taken :
            r.node_id # None =>
                /\ r.node_id[1] \in Nodes
                /\ G_node[r.node_id[1]].visited)
    /\ [][ (ev'.op \in {"drop", "drop_ignored"} /\ ev'.node_id # None) =>
              LET v == ev'.node_id[1]
              IN  /\ v \in DOMAIN G_node'
                  /\ G_node'[v].visited
                  /\ G_node'[v].ok = Some(FALSE)
                  /\ G_node'[v].scores = Some([ft \in FormTypes |-> 0])
                  /\ v \in replay_node_ids'
                  /\ G_edge' = G_edge
                  /\ DOMAIN G_node' = Nodes ]_vars

\* the request of a pending child has just been dropped: the child is
\* visited, not ok, scored 0, in the replay set, and keeps its url and its
\* predicted scores
C12_Witness ==
    /\ ev.op = "drop" /\ ev.node_id # None
    /\ G_node[ev.node_id[1]].visited
    /\ G_node[ev.node_id[1]].ok = Some(FALSE)
    /\ G_node[ev.node_id[1]].scores = Some([ft \in FormTypes |-> 0])
    /\ ev.node_id[1] \in replay_node_ids
    /\ "predicted_scores" \in DOMAIN G_node[ev.node_id[1]]
    /\ G_node[ev.node_id[1]].url \in Range(PageUrls)

\* the largest element of a non-empty set of numbers
largest(S) == CHOOSE x \in S : \A y \in S : y <= x

\* the value the claim gives a domain and a form type: the largest of 0
\* and the scores fed for them
fed_max(d, k) == largest({0} \cup fed[d][k])

RECURSIVE fed_total(_, _)
fed_total(D, k) ==
    IF D = {} THEN 0
    ELSE LET d == CHOOSE x \in D : TRUE
         IN  fed_max(d, k) + fed_total(D \ {d}, k)

C13_Values ==
    /\ DOMAIN domain_scores = DOMAIN fed
    /\ \A d \in DOMAIN fed : \A k \in FormTypes :
         domain_scores[d][k] = fed_max(d, k)
    /\ MaxScores_len(domain_scores) = Cardinality(DOMAIN fed)
    /\ \A k \in FormTypes :
         /\ MaxScores_sum(domain_scores)[k] = fed_total(DOMAIN fed, k)
         /\ LET avg == MaxScores_avg(domain_scores)[k]
            IN  IF DOMAIN fed = {} THEN avg = << 0, 1 >>
                ELSE /\ avg[2] > 0
                     /\ avg[1] * Cardinality(DOMAIN fed)
                          = fed_total(DOMAIN fed, k) * avg[2]

C13_Step ==
    \A d \in DOMAIN domain_scores :
        /\ d \in DOMAIN domain_scores'
        /\ \A k \in FormTypes : domain_scores'[d][k] >= domain_scores[d][k]

\* C13: after any sequence of MaxScores.update calls a domain has an entry
\* exactly when update was called for it, its value for a form type is the
\* largest of 0 and the scores fed for it, and no update lowers it; sum()
\* adds these values over the domains, avg() is sum() divided by the number
\* of domains and all zero when there is none, len() is the number of
\* domains updated.
C13_MaxScores == []C13_Values /\ [][C13_Step]_vars

\* the updates of the doctest: a domain updated twice, a smaller and a
\* larger later score, a domain given one form type only; sum 0.9 and 0.4,
\* avg 0.45 and 0.2, two domains
C13_Witness ==
    /\ fed = ("foo" :> [login |-> {1}, search |-> {1, 4}])
              @@ ("bar" :> [login |-> {4, 8}, search |-> {}])
    /\ domain_scores["foo"] = [login |-> 1, search |-> 4]
    /\ domain_scores["bar"] = [login |-> 8, search |-> 0]
    /\ MaxScores_sum(domain_scores) = [login |-> 9, search |-> 4]
    /\ MaxScores_avg(domain_scores)
         = [login |-> << 9, 2 >>, search |-> << 2, 1 >>]
    /\ MaxScores_len(domain_scores) = 2

\* C14: a drop notification whose request has no node id is ignored: the
\* graph, the replay set, the domain scores, the classifiers, the counters
\* and the suspended generators stay as they are, and so do the requests
\* still queued, so that what is handled next finds the spider as it was;
\* only the dropped request leaves the queue.
C14_DropWithoutNodeId ==
    [][ (ev'.op \in {"drop", "drop_ignored"} /\ ev'.node_id = None) =>
          /\ ev'.op = "drop_ignored"
          /\ G_node' = G_node
          /\ G_edge' = G_edge
          /\ replay_node_ids' = replay_node_ids
          /\ domain_scores' = domain_scores
          /\ link_classifiers' = link_classifiers
          /\ node_ids' = node_ids
          /\ response_count' = response_count
          /\ scores_recalculated_at' = scores_recalculated_at
          /\ gens' = gens
          /\ queue' \subseteq queue
          /\ Cardinality(queue') = Cardinality(queue) - 1 ]_vars

\* the request of a seed was dropped, so no node has its url, and an ok
\* response of another page has been handled since
C14_Witness ==
    /\ ev.op = "parse" /\ ev.ok = Some(TRUE)
    /\ G_node[ev.node_id[1]].visited
    /\ \E r \in taken :
         /\ r.node_id = None
         /\ \A n \in Nodes : G_node[n].url # r.url

\* C15, as the claim states it: the replay sample of a visit holds ids of
\* nodes visited earlier only, so the examples after the fresh one in the
\* batch are never examples of the node being visited.
C15_SampleExcludesCurrent ==
    (ev.op = "parse" /\ ev.batch # None) =>
        \A i \in 2..Len(ev.batch[1].ids) :
            ev.batch[1].ids[i] # ev.node_id[1]

\* C16: handling the response of a node that has an incoming link calls
\* partial_fit exactly once for every form type, with the batch of the
\* fresh and the replayed examples; handling a seed response builds no
\* batch and leaves every classifier as it was; no other step trains.
C16_OneUpdatePerVisit ==
    [][ /\ ev'.op = "parse" =>
              IF in_edges(ev'.node_id[1]) # {}
              THEN /\ ev'.batch # None
                   /\ ev'.batch[1].ids[1] = ev'.node_id[1]
                   /\ \A ft \in FormTypes :
                        link_classifiers'[ft] = link_classifiers[ft] + 1
              ELSE /\ ev'.batch = None
                   /\ ev'.node_id[1] \in seed_ids'
                   /\ link_classifiers' = link_classifiers
        /\ ev'.op # "parse" => link_classifiers' = link_classifiers ]_vars

\* the second visit of a node with an incoming link, its batch the fresh
\* example and a replayed one: two partial_fit calls so far per form type
C16_Witness ==
    /\ ev.op = "parse" /\ ev.batch # None
    /\ Len(ev.batch[1].X_raw) = 2
    /\ \A ft \in FormTypes : link_classifiers[ft] = 2
    /\ \E sd \in seed_ids : G_node[sd].visited

\* C17: in every batch and for every form type there are as many labels as
\* link dicts; the example at each position is the incoming link of a node,
\* and its label is True exactly when that node's observed score for the
\* form type is at least 0.5, for the replayed examples as for the fresh
\* one; a form type the scores lack counts as 0.
C17_Labels ==
    /\ (ev.op = "parse" /\ ev.batch # None) =>
          LET b == ev.batch[1]
          IN  /\ Len(b.ids) = Len(b.X_raw)
              /\ b.ids[1] = ev.node_id[1]
              /\ \A i \in 1..Len(b.X_raw) :
                   /\ \E e \in in_edges(b.ids[i]) : G_edge[e].link = b.X_raw[i]
                   /\ \A ft \in FormTypes :
                        /\ Len(b.y_all[ft]) = Len(b.X_raw)
                        /\ b.y_all[ft][i]
                             = (Get(G_node[b.ids[i]].scores[1], ft, 0) >= 5)
    /\ \A K \in SUBSET FormTypes : \A d \in [K -> {4, 5}] :
         \A ft \in FormTypes :
            get_y(0 :> [scores |-> Some(d)], 0, ft)
                = << ft \in K /\ d[ft] >= 5 >>

\* a batch of the fresh example and a replayed one of another node, whose
\* labels for a form type differ
C17_Witness ==
    /\ ev.op = "parse" /\ ev.batch # None
    /\ Len(ev.batch[1].ids) = 2
    /\ ev.batch[1].ids[2] # ev.batch[1].ids[1]
    /\ \E ft \in FormTypes :
         ev.batch[1].y_all[ft][1] # ev.batch[1].y_all[ft][2]

\* a saved graph with no half-made node: every node has the fields it is
\* created with, a node with an incoming edge has its predicted scores,
\* every node that is not a seed has exactly one incoming edge, and every
\* edge joins two nodes of the graph and carries its link
whole(g) ==
    /\ \A n \in DOMAIN g.node :
         /\ {"url", "visited", "ok", "scores", "response_id"}
              \subseteq DOMAIN g.node[n]
         /\ LET into == { e \in DOMAIN g.edge : e[2] = n }
            IN  IF n \in seed_ids THEN into = {}
                ELSE /\ Cardinality(into) = 1
                     /\ "predicted_scores" \in DOMAIN g.node[n]
    /\ \A e \in DOMAIN g.edge :
         /\ e[1] \in DOMAIN g.node /\ e[2] \in DOMAIN g.node
         /\ "url" \in DOMAIN g.edge[e].link

\* C18: whatever the interleaving of responses, suspended expansions,
\* re-scoring passes, checkpoints and the closing of the spider, the graph
\* of a checkpoint has no half-made node or edge, and a checkpoint writes
\* the graph and the classifiers of one and the same state, in a step that
\* changes nothing of the spider; the same holds of the two files written
\* when the spider is closed.
C18_Checkpoint ==
    /\ [](saved # None => whole(saved[1].graph))
    /\ [](final # None => whole(final[1].graph))
    /\ [][ final' # final =>
              /\ final' = Some([pipe |-> [clf |-> link_classifiers],
                                graph |-> [node |-> G_node, edge |-> G_edge]])
              /\ UNCHANGED << G_node, G_edge, node_ids, replay_node_ids,
                              scores_recalculated_at, response_count,
                              domain_scores, link_classifiers, queue, gens,
                              saved >>
       ]_vars
    /\ [][ saved' # saved =>
              /\ saved' = Some([graph |-> [node |-> G_node, edge |-> G_edge],
                                pipe |-> [clf |-> link_classifiers]])
              /\ UNCHANGED << G_node, G_edge, node_ids, replay_node_ids,
                              scores_recalculated_at, response_count,
                              domain_scores, link_classifiers, queue, gens >>
       ]_vars

\* a checkpoint taken while an expansion was suspended between its two
\* children: the saved graph has the first child of a node that has two by
\* now, and classifiers that have been trained since
C18_Witness ==
    /\ saved # None
    /\ \E v \in DOMAIN saved[1].graph.node :
         /\ Cardinality({ e \in DOMAIN saved[1].graph.edge : e[1] = v }) = 1
         /\ Cardinality(children(v)) = 2
    /\ saved[1].pipe.clf # link_classifiers

\* C19: the first id the counter hands out goes to a seed response, so
\* node 0 is a seed, no request in the queue or taken from it carries node
\* id 0, and the only drop notifications the handler ignores are those of
\* requests without a node id.
C19_NodeZeroIsSeed ==
    /\ alloc # <<>> => (alloc[1] = 0 /\ 0 \in seed_ids)
    /\ 0 \in Nodes => 0 \in seed_ids
    /\ \A r \in queue \cup taken : r.node_id # Some(0)
    /\ ev.op = "drop_ignored" => ev.node_id = None

\* the request of node 1, the first child of seed 0, has just been dropped
\* and the handler has recorded it
C19_Witness ==
    /\ ev.op = "drop" /\ ev.node_id = Some(1)
    /\ 0 \in seed_ids
    /\ << 0, 1 >> \in Edges
    /\ G_node[1].visited /\ 1 \in replay_node_ids

\* the domains the crawl can ever see: those of its requests
crawl_domains == { r.domain : r \in queue \cup taken }

\* responses handled since the last re-scoring pass
since_last_pass == response_count - scores_recalculated_at

C20_Bounded ==
    /\ DOMAIN domain_scores \subseteq crawl_domains
    /\ since_last_pass > Max(RescoreFloor, Cardinality(crawl_domains))
         => gate_open

C20_Count ==
    /\ ev'.op = "parse" =>
          /\ response_count' = response_count + 1
          /\ scores_recalculated_at' = scores_recalculated_at
    /\ ev'.op # "rescore_run" =>
          /\ response_count' >= response_count
          /\ scores_recalculated_at' = scores_recalculated_at
          /\ gate_open => gate_open'

\* C20: every response adds one to the responses counted since the last
\* pass and nothing but a pass takes from them; the domains counted by the
\* gate are domains of the crawl, so the gate is open once more responses
\* than max(floor, domains of the crawl) have come since the last pass;
\* an open gate stays open until a pass runs; and with the timer ticking,
\* whenever the gate is open a pass is eventually executed, the first one
\* and those after every earlier pass, unless the timer has been stopped by
\* the closing of the spider.
C20_RescoreEventually ==
    /\ []C20_Bounded
    /\ [][C20_Count]_vars
    /\ gate_open ~> \/ ~gate_open /\ ev.op = "rescore_run"
                    \/ ~running["update_link_scores_task"]

\* a pass has run after an earlier pass, the responses since then having
\* opened the gate again
C20_Witness ==
    /\ ev.op = "rescore_run"
    /\ ev.since > 0
    /\ scores_recalculated_at = response_count
    /\ scores_recalculated_at - ev.since > RescoreFloor

====
